---------------------------- MODULE Spec2Model ----------------------------
(***************************************************************************)
(* Experiment execution and data-persistence pipeline of the jsPsych       *)
(* experiment (runExperiment): timeline construction, the on_data_update   *)
(* and on_finish callbacks, the incremental and final save protocol, the   *)
(* exit paths and the debrief summary.                                     *)
(***************************************************************************)
EXTENDS Integers, Sequences, FiniteSets, TLC

(* ------------------------------ bounds -------------------------------- *)

\* random streams the engine's shuffle is explored with: seeds 0..MaxSeed
MaxSeed == 5

\* repetitions of the procedural block of the mixed fixture timeline
MaxReps == 2

\* reaction times reported by a response plugin: 1..MaxRt (units of 100 ms)
MaxRt == 2

(* ------------------------- program constants -------------------------- *)

\* setTimeout(..., 3000) in exitExperiment and in the debug success branch
ExitDelay == 3000

\* test_procedure.repetitions
MainRepetitions == 1

(* --------------------------- trial descriptors ------------------------- *)

\* A trial descriptor: the plugin that renders it and the tags of its
\* `data` parameter, which the engine copies into the trial's data event.
\* A tag the descriptor does not set is "absent".
Desc(name, plugin, task, save) ==
    [name |-> name, plugin |-> plugin, task |-> task, saveIncrementally |-> save]

\* variant: the welcome screen asks for an incremental save
welcomeFlagged == Desc("welcome", "html-keyboard-response", "absent", "true")

preload        == Desc("preload", "preload", "absent", "absent")
welcome        == Desc("welcome", "html-keyboard-response", "absent", "absent")
instructions   == Desc("instructions", "html-keyboard-response", "absent", "absent")
fixation       == Desc("fixation", "html-keyboard-response", "fixation", "absent")
trial1         == Desc("trial1", "rdk", "absent", "absent")
trial2         == Desc("trial2", "rdk", "absent", "absent")
trial3         == Desc("trial3", "rdk", "absent", "absent")
trial4         == Desc("trial4", "rdk", "absent", "absent")
trial5         == Desc("trial5", "rdk", "absent", "absent")
trial6         == Desc("trial6", "rdk", "absent", "absent")
blue_always    == Desc("blue_always", "html-keyboard-response", "absent", "absent")
yellow_usually == Desc("yellow_usually", "html-keyboard-response", "absent", "absent")
blue_usually   == Desc("blue_usually", "html-keyboard-response", "absent", "absent")
blue_often     == Desc("blue_often", "html-keyboard-response", "absent", "absent")
rdk_trial      == Desc("rdk_trial", "rdk", "absent", "absent")
debrief_block  == Desc("debrief_block", "html-keyboard-response", "absent", "absent")

\* A timeline node is a trial descriptor or a procedural block.
Trial(d) == [kind |-> "trial", desc |-> d]
Block(members, reps, rand) ==
    [kind |-> "block", timeline |-> members, repetitions |-> reps,
     randomize_order |-> rand]

test_procedure ==
    Block(<<fixation, blue_always, trial1, fixation, yellow_usually, trial2,
            fixation, blue_always, trial3, fixation, blue_usually, trial4,
            fixation, blue_often, trial5, fixation, blue_usually, trial6>>,
          MainRepetitions, TRUE)

\* variant: the instructions trial is never pushed
MainTimelineNoInstructions ==
    <<Trial(preload), Trial(welcome), test_procedure>>

\* variant: the block is pushed before the instructions
MainTimelineBlockEarly ==
    <<Trial(preload), Trial(welcome), test_procedure, Trial(instructions)>>

\* the timeline of experiment.ts
MainTimeline ==
    <<Trial(preload), Trial(welcome), Trial(instructions), test_procedure>>

\* the timeline of the three-trial variant
ThreeTrialTimeline ==
    <<Trial(preload), Trial(welcome), Trial(instructions),
      Trial(trial1), Trial(trial2), Trial(trial3)>>

\* the timeline of the debrief variant
DebriefTimeline ==
    <<Trial(preload), Trial(welcome), Trial(instructions),
      Trial(rdk_trial), Trial(debrief_block)>>

\* Fixture timelines driving the callbacks with flagged events.
\* Scenario A: three trials, all with save-incrementally set.
ScenarioATimeline ==
    <<Trial(Desc("a1", "rdk", "response", "true")),
      Trial(Desc("a2", "rdk", "response", "true")),
      Trial(Desc("a3", "rdk", "response", "true"))>>

\* A flagged and an explicitly unflagged trial, then a randomized, repeated
\* block with a flagged response trial.
MixedTimeline ==
    <<Trial(Desc("m1", "html-keyboard-response", "absent", "true")),
      Trial(Desc("m2", "html-keyboard-response", "absent", "false")),
      Block(<<Desc("b1", "rdk", "response", "true"),
              Desc("b2", "html-keyboard-response", "fixation", "absent")>>,
            MaxReps, TRUE)>>

\* Response trials, an untagged trial and the debrief (Scenario C's shape).
SummaryTimeline ==
    <<Trial(Desc("s1", "rdk", "response", "absent")),
      Trial(Desc("s2", "rdk", "response", "absent")),
      Trial(Desc("s3", "rdk", "fixation", "absent")),
      Trial(debrief_block)>>

\* A trial whose number_of_dots array has two entries for three apertures,
\* behind two well-formed units.
MalformedTimeline ==
    <<Trial(preload), Trial(welcome),
      Trial(Desc("bad_trial", "rdk", "absent", "absent"))>>

\* number_of_apertures of a descriptor and the lengths of its per-aperture
\* parameter arrays (move_distance, dot_color, number_of_dots,
\* aperture_center_x)
ApertureParams(name) ==
    CASE name \in {"trial1", "trial2", "trial3", "trial4", "trial5", "trial6"} ->
           [number_of_apertures |-> 3, lengths |-> {3}]
      [] name = "bad_trial" ->
           [number_of_apertures |-> 3, lengths |-> {2, 3}]
      [] OTHER ->
           [number_of_apertures |-> 1, lengths |-> {}]

\* is the descriptor's type a plugin object (rdk_trial gives the string "rdk")
TypeIsPlugin(name) == name # "rdk_trial"

WellFormedDesc(d) ==
    /\ TypeIsPlugin(d.name)
    /\ \A l \in ApertureParams(d.name).lengths :
         l = ApertureParams(d.name).number_of_apertures

WellFormedTimeline(tl) ==
    \A i \in 1..Len(tl) :
        IF tl[i].kind = "trial" THEN WellFormedDesc(tl[i].desc)
        ELSE \A j \in 1..Len(tl[i].timeline) : WellFormedDesc(tl[i].timeline[j])

Variants ==
    {"main", "threeTrial", "debrief", "scenarioA", "mixed", "summary", "malformed"}

TimelineOf(v) ==
    CASE v = "main"       -> MainTimeline
      [] v = "threeTrial" -> ThreeTrialTimeline
      [] v = "debrief"    -> DebriefTimeline
      [] v = "scenarioA"  -> ScenarioATimeline
      [] v = "mixed"      -> MixedTimeline
      [] v = "summary"    -> SummaryTimeline
      [] v = "malformed"  -> MalformedTimeline


(* ------------------------------- state -------------------------------- *)

VARIABLES
    variant,        \* which build of runExperiment this session runs
    debug,          \* debugging()
    mock,           \* mockStore()
    runnerState,    \* Idle, Running, Finishing, Completed, Failed
    nodeIdx,        \* engine: index of the current top-level timeline node
    rep,            \* engine: completed repetitions of the current block
    queue,          \* engine: units left in the current block repetition
    jsPsychData,    \* engine: the DataCollection of the session
    debrief,        \* what debrief_block.stimulus rendered, if it ran
    partial,        \* adapter: the saveTrialDataPartial calls, in call order
    complete,       \* adapter: the saveTrialDataComplete calls, in call order
    body,           \* document.body
    content,        \* innerHTML of #jspsych-content
    timers,         \* pending setTimeout callbacks
    location,       \* globalThis.location
    log,            \* console output, counted per message
    panelRefreshes  \* number of updateDebugPanel() calls

vars == <<variant, debug, mock, runnerState, nodeIdx, rep, queue, jsPsychData,
          debrief, partial, complete, body, content, timers, location, log,
          panelRefreshes>>

Timeline == TimelineOf(variant)

(* ------------------------------ helpers ------------------------------- *)

RECURSIVE SumSeq(_)
SumSeq(s) == IF s = <<>> THEN 0 ELSE Head(s) + SumSeq(Tail(s))

\* number of units a node contributes to the flattened timeline
NodeCount(n) ==
    IF n.kind = "trial" THEN 1 ELSE Len(n.timeline) * n.repetitions

\* flattened unit count of a timeline
FlatCount(tl) == SumSeq([i \in 1..Len(tl) |-> NodeCount(tl[i])])

\* does the timeline contain the debrief unit, the only reader of rt
HasDebrief(tl) ==
    \E i \in 1..Len(tl) : tl[i].kind = "trial" /\ tl[i].desc.name = "debrief_block"

LogKinds ==
    {"runExperiment", "UserInfo", "update", "partialSuccess", "partialError",
     "completeSuccess", "finishData", "completeError"}

Bump(l, k) == [l EXCEPT ![k] = @ + 1]

(* ------------------------------ the UI -------------------------------- *)

Page(kind, code, url) == [kind |-> kind, completionCode |-> code, redirectUrl |-> url]

AppPage      == Page("app", FALSE, FALSE)
EmptyContent == Page("empty", FALSE, FALSE)
TrialContent == Page("trial", FALSE, FALSE)
PleaseWait   == Page("pleaseWait", FALSE, FALSE)
DataDisplay  == Page("data", FALSE, FALSE)
Removed      == Page("removed", FALSE, FALSE)

\* variant: the redirect link is echoed in every configuration
debuggingTextAlways == TRUE

\* debuggingText: the redirect link is echoed only when debugging
debuggingText == debug

\* exitMessage: always carries the completion code prolificCC
exitMessage == Page("exitMessage", TRUE, debuggingText)

Timer(action) == [action |-> action, delay |-> ExitDelay]

\* exitExperiment(): replace the whole page and schedule the redirect
exitExperiment ==
    /\ body' = exitMessage
    /\ content' = Removed
    /\ timers' = timers \cup {Timer("redirect")}

\* exitExperimentDebugging(): put the notice into the content element
exitExperimentDebugging ==
    /\ content' = exitMessage
    /\ body' = body

\* what the participant sees
Visible == IF body = AppPage THEN content ELSE body

PageAlive == location = "experiment"

(* --------------------------- the data set ----------------------------- *)

\* DataCollection: the engine's wrapper around the list of trial records
DataCollection(trials) == [trials |-> trials]

\* DataCollection.values(): the plain list of records
Values(dc) == dc.trials

\* DataCollection.count()
Count(dc) == Len(dc.trials)

\* DataCollection.filter({task: t})
FilterTask(dc, t) ==
    DataCollection(SelectSeq(dc.trials, LAMBDA r : r.task = t))

\* DataCollection.filter({correct: true})
FilterCorrect(dc) ==
    DataCollection(SelectSeq(dc.trials, LAMBDA r : r.correct = "true"))

\* numbers as JavaScript has them: a value or NaN
Num(v) == [nan |-> FALSE, val |-> v]
NaN    == [nan |-> TRUE, val |-> 0]

\* Math.round(a / b) for a >= 0: halves round up, 0 / 0 is NaN
RoundDiv(a, b) == IF b = 0 THEN NaN ELSE Num((2 * a + b) \div (2 * b))

RECURSIVE Pow2(_)
Pow2(k) == IF k = 0 THEN 1 ELSE 2 * Pow2(k - 1)

RECURSIVE Log2Floor(_)
Log2Floor(n) == IF n < 2 THEN 0 ELSE 1 + Log2Floor(n \div 2)

\* the binade of the double c / t, 0 < c <= t: the least z with
\* 2^-z <= c / t
RECURSIVE Binade(_, _, _)
Binade(c, t, z) == IF c * Pow2(z) >= t THEN z ELSE Binade(c, t, z + 1)

\* The error of the double division c / t. The quotient keeps 53 bits,
\* so with z its binade it is the multiple of 2^-(z+52) nearest to c / t
\* (ties to the even one): it equals c / t + QuotientError / (t * 2^(z+52)).
\* The remainders of the long division stay below t.
QuotientError(c, t) ==
    LET s == Binade(c, t, 0) + 52
        rem[i \in 0..s] == IF i = 0 THEN c % t ELSE (2 * rem[i - 1]) % t
        lastBit == ((2 * rem[s - 1]) \div t) % 2
    IN  IF 2 * rem[s] < t THEN 0 - rem[s]
        ELSE IF 2 * rem[s] > t THEN t - rem[s]
        ELSE IF lastBit = 1 THEN t - rem[s] ELSE 0 - rem[s]

\* Math.round((c / t) * 100) in double arithmetic, 0 <= c <= t. The
\* quotient is rounded to a double, the product is rounded again, and
\* Math.round takes halves up. When 100 * c / t is no exact half the two
\* roundings cannot move the product across a half, and the result is the
\* exact rounding. When it is the half j + 0.5, the product is the double
\* nearest to j + 0.5 + 100 * QuotientError / (t * 2^(z+52)): it reaches
\* j + 0.5 exactly if the error is no more than half the spacing of the
\* doubles below j + 0.5 (2^(e-52) with e the binade of j + 0.5; half of
\* that for the power of two 0.5).
RoundPercent(c, t) ==
    IF t = 0 THEN NaN
    ELSE IF c = 0 THEN Num(0)
    ELSE IF (200 * c) % t = 0 /\ ((200 * c) \div t) % 2 = 1
    THEN LET j == (((200 * c) \div t) - 1) \div 2
             z == Binade(c, t, 0)
             e == IF j = 0 THEN z - 2 ELSE z + Log2Floor(j)
         IN  IF 200 * QuotientError(c, t) + t * Pow2(e) >= 0
             THEN Num(j + 1) ELSE Num(j)
    ELSE Num((200 * c + t) \div (2 * t))

\* DataCollection.select('rt') summed
SumRt(dc) == SumSeq([i \in 1..Len(dc.trials) |-> dc.trials[i].rt])

\* debrief_block.stimulus: accuracy and mean reaction time of the
\* response-tagged trials
Summarize(dc) ==
    LET trials         == FilterTask(dc, "response")
        correct_trials == FilterCorrect(trials)
    IN  [shown    |-> TRUE,
         total    |-> Count(trials),
         accuracy |-> RoundPercent(Count(correct_trials), Count(trials)),
         rt       |-> RoundDiv(SumRt(correct_trials), Count(correct_trials))]

NoDebrief == [shown |-> FALSE, total |-> 0, accuracy |-> Num(0), rt |-> Num(0)]

(* ---------------------------- the engine ------------------------------ *)

Seeds == 0..MaxSeed

\* The engine's shuffle: for m = n down to 1, swap element m with a
\* randomly drawn element among the first m. The draw for m is the digit
\* of weight (m-1)! of the random stream s, counted down from m, so
\* stream 0 leaves every element in place and the streams below n! give
\* the n! orders of n elements. The result is read off position by
\* position: the element that ends at p is the one the swaps for
\* m = 1..n, undone in turn, lead back to.
Shuffle(arr, s) ==
    LET n == Len(arr)
        rest[m \in 1..n] == IF m = 1 THEN s ELSE rest[m - 1] \div (m - 1)
        draw[m \in 1..n] == m - (rest[m] % m)
        from[pm \in (1..n) \X (1..(n + 1))] ==
            LET p == pm[1]
                m == pm[2]
            IN  IF m > n THEN p
                ELSE from[<<IF p = m THEN draw[m]
                            ELSE IF p = draw[m] THEN m ELSE p, m + 1>>]
    IN  [p \in 1..n |-> arr[from[<<p, 1>>]]]

\* the order of one repetition of a block
BlockOrder(node, s) ==
    IF node.randomize_order THEN Shuffle(node.timeline, s) ELSE node.timeline

\* what a plugin reports for a unit: rdk reports correctness and a reaction
\* time; the reaction time is enumerated where something reads it
PluginOutputs(desc, tl) ==
    IF desc.plugin = "rdk"
    THEN {[correct |-> c, rt |-> t] :
            c \in {"true", "false"},
            t \in IF HasDebrief(tl) THEN 1..MaxRt ELSE {1}}
    ELSE {[correct |-> "absent", rt |-> 0]}

\* the data event of a completed unit: the plugin's output merged with the
\* descriptor's data tags, numbered by the engine
TrialDataEvent(desc, out, index) ==
    [trial_index |-> index, unit |-> desc.name, task |-> desc.task,
     saveIncrementally |-> desc.saveIncrementally,
     correct |-> out.correct, rt |-> out.rt]

Exhausted == nodeIdx > Len(Timeline)

\* variant: the timeline waits for the pending incremental saves
CanAdvanceAwaitingSaves ==
    /\ runnerState = "Running" /\ ~Exhausted /\ PageAlive
    /\ \A i \in 1..Len(partial) : partial[i].status # "pending"

\* the timeline advances whenever a unit is left, whatever the saves do
CanAdvance == runnerState = "Running" /\ ~Exhausted /\ PageAlive

(* ----------------------------- callbacks ------------------------------ *)

\* variant: saves unless the flag is explicitly false
ShouldSaveUnlessFalse(trialData) == trialData.saveIncrementally # "false"

\* on_data_update: if (trialData.saveIncrementally)
ShouldSaveIncrementally(trialData) == trialData.saveIncrementally = "true"

\* on_data_update: the save-one calls after handling trialData
OnDataUpdateCalls(calls, trialData) ==
    IF ShouldSaveIncrementally(trialData)
    THEN Append(calls, [record |-> trialData, status |-> "pending"])
    ELSE calls

\* on_data_update: the console after handling trialData
OnDataUpdateLog(l) == IF debug THEN Bump(l, "update") ELSE l

\* variant: the final save skips the records already saved incrementally
FinalRecordsUnsaved(dc) ==
    SelectSeq(Values(dc), LAMBDA r : r.saveIncrementally # "true")

\* on_finish: the records handed to saveTrialDataComplete
FinalRecords(dc) == Values(dc)

(* ------------------------------ actions ------------------------------- *)

Init ==
    /\ variant \in Variants
    /\ debug \in BOOLEAN
    /\ mock \in BOOLEAN
    /\ runnerState = "Idle"
    /\ nodeIdx = 1
    /\ rep = 0
    /\ queue = <<>>
    /\ jsPsychData = DataCollection(<<>>)
    /\ debrief = NoDebrief
    /\ partial = <<>>
    /\ complete = <<>>
    /\ body = AppPage
    /\ content = EmptyContent
    /\ timers = {}
    /\ location = "experiment"
    /\ log = [k \in LogKinds |-> 0]
    /\ panelRefreshes = 0

\* runExperiment up to jsPsych.run(timeline)
Start ==
    /\ runnerState = "Idle"
    /\ runnerState' = "Running"
    /\ log' = IF debug THEN Bump(Bump(log, "runExperiment"), "UserInfo") ELSE log
    /\ content' = TrialContent
    /\ UNCHANGED <<variant, debug, mock, nodeIdx, rep, queue, jsPsychData, debrief,
                   partial, complete, body, timers, location, panelRefreshes>>

\* the engine runs the next unit, records its data event and calls
\* on_data_update with it
RunUnit ==
    /\ CanAdvance
    /\ LET node    == Timeline[nodeIdx]
           isBlock == node.kind = "block"
           fresh   == isBlock /\ queue = <<>>
       IN \E s \in IF fresh /\ node.randomize_order THEN Seeds ELSE {0} :
            LET q    == IF ~isBlock THEN <<node.desc>>
                        ELSE IF fresh THEN BlockOrder(node, s) ELSE queue
                desc == Head(q)
                rest == Tail(q)
                last == rest = <<>>
                done == ~isBlock \/ (last /\ rep + 1 = node.repetitions)
            IN \E out \in PluginOutputs(desc, Timeline) :
                 LET trialData == TrialDataEvent(desc, out, Count(jsPsychData))
                 IN /\ queue' = rest
                    /\ rep' = IF done THEN 0 ELSE IF last THEN rep + 1 ELSE rep
                    /\ nodeIdx' = IF done THEN nodeIdx + 1 ELSE nodeIdx
                    /\ debrief' = IF desc.name = "debrief_block"
                                  THEN Summarize(jsPsychData) ELSE debrief
                    /\ jsPsychData' = DataCollection(Append(jsPsychData.trials, trialData))
                    /\ partial' = OnDataUpdateCalls(partial, trialData)
                    /\ log' = OnDataUpdateLog(log)
    /\ UNCHANGED <<variant, debug, mock, runnerState, complete, body, content,
                   timers, location, panelRefreshes>>

\* on_finish: show the notice and dispatch the final save
\* variant: on_finish runs only once every incremental save has settled
FinishAwaitingSaves ==
    /\ runnerState = "Running"
    /\ Exhausted
    /\ PageAlive
    /\ \A k \in 1..Len(partial) : partial[k].status # "pending"
    /\ content' = PleaseWait
    /\ complete' = Append(complete, [records |-> FinalRecords(jsPsychData),
                                     status |-> "pending"])
    /\ runnerState' = "Finishing"
    /\ UNCHANGED <<variant, debug, mock, nodeIdx, rep, queue, jsPsychData, debrief,
                   partial, body, timers, location, log, panelRefreshes>>

\* variant: on_finish dispatches the final save without the notice
FinishSilent ==
    /\ runnerState = "Running"
    /\ Exhausted
    /\ PageAlive
    /\ content' = content
    /\ complete' = Append(complete, [records |-> FinalRecords(jsPsychData),
                                     status |-> "pending"])
    /\ runnerState' = "Finishing"
    /\ UNCHANGED <<variant, debug, mock, nodeIdx, rep, queue, jsPsychData, debrief,
                   partial, body, timers, location, log, panelRefreshes>>

\* jsPsych's on_finish up to the pending saveTrialDataComplete call
Finish ==
    /\ runnerState = "Running"
    /\ Exhausted
    /\ PageAlive
    /\ content' = PleaseWait
    /\ complete' = Append(complete, [records |-> FinalRecords(jsPsychData),
                                     status |-> "pending"])
    /\ runnerState' = "Finishing"
    /\ UNCHANGED <<variant, debug, mock, nodeIdx, rep, queue, jsPsychData, debrief,
                   partial, body, timers, location, log, panelRefreshes>>

\* variant: the debug panel is refreshed whenever debugging
ResolvePartialDebugOnly(i) ==
    /\ PageAlive
    /\ partial[i].status = "pending"
    /\ partial' = [partial EXCEPT ![i].status = "resolved"]
    /\ log' = IF debug THEN Bump(log, "partialSuccess") ELSE log
    /\ panelRefreshes' = IF debug THEN panelRefreshes + 1 ELSE panelRefreshes
    /\ UNCHANGED <<variant, debug, mock, runnerState, nodeIdx, rep, queue,
                   jsPsychData, debrief, complete, body, content, timers, location>>

\* variant: save-one calls resolve in the order they were dispatched
ResolvePartialInOrder(i) ==
    /\ PageAlive
    /\ partial[i].status = "pending"
    /\ \A k \in 1..(i - 1) : partial[k].status # "pending"
    /\ partial' = [partial EXCEPT ![i].status = "resolved"]
    /\ log' = IF debug THEN Bump(log, "partialSuccess") ELSE log
    /\ panelRefreshes' = IF debug /\ mock THEN panelRefreshes + 1 ELSE panelRefreshes
    /\ UNCHANGED <<variant, debug, mock, runnerState, nodeIdx, rep, queue,
                   jsPsychData, debrief, complete, body, content, timers, location>>

\* variant: the success handler is dropped once on_finish has run
ResolvePartialWhileRunning(i) ==
    /\ PageAlive
    /\ runnerState = "Running"
    /\ partial[i].status = "pending"
    /\ partial' = [partial EXCEPT ![i].status = "resolved"]
    /\ log' = IF debug THEN Bump(log, "partialSuccess") ELSE log
    /\ panelRefreshes' = IF debug /\ mock THEN panelRefreshes + 1 ELSE panelRefreshes
    /\ UNCHANGED <<variant, debug, mock, runnerState, nodeIdx, rep, queue,
                   jsPsychData, debrief, complete, body, content, timers, location>>

\* saveTrialDataPartial resolves: the success handler of on_data_update
ResolvePartial(i) ==
    /\ PageAlive
    /\ partial[i].status = "pending"
    /\ partial' = [partial EXCEPT ![i].status = "resolved"]
    /\ log' = IF debug THEN Bump(log, "partialSuccess") ELSE log
    /\ panelRefreshes' = IF debug /\ mock THEN panelRefreshes + 1 ELSE panelRefreshes
    /\ UNCHANGED <<variant, debug, mock, runnerState, nodeIdx, rep, queue,
                   jsPsychData, debrief, complete, body, content, timers, location>>

\* variant: a rejected save-one is dispatched again
RejectPartialRetry(i) ==
    /\ PageAlive
    /\ partial[i].status = "pending"
    /\ partial' = Append([partial EXCEPT ![i].status = "rejected"],
                         [record |-> partial[i].record, status |-> "pending"])
    /\ log' = Bump(log, "partialError")
    /\ UNCHANGED <<variant, debug, mock, runnerState, nodeIdx, rep, queue,
                   jsPsychData, debrief, complete, body, content, timers, location,
                   panelRefreshes>>

\* variant: a rejected save-one ends the session through exitExperiment
RejectPartialExits(i) ==
    /\ PageAlive
    /\ partial[i].status = "pending"
    /\ partial' = [partial EXCEPT ![i].status = "rejected"]
    /\ log' = Bump(log, "partialError")
    /\ exitExperiment
    /\ UNCHANGED <<variant, debug, mock, runnerState, nodeIdx, rep, queue,
                   jsPsychData, debrief, complete, location, panelRefreshes>>

\* saveTrialDataPartial rejects: the error handler of on_data_update
RejectPartial(i) ==
    /\ PageAlive
    /\ partial[i].status = "pending"
    /\ partial' = [partial EXCEPT ![i].status = "rejected"]
    /\ log' = Bump(log, "partialError")
    /\ UNCHANGED <<variant, debug, mock, runnerState, nodeIdx, rep, queue,
                   jsPsychData, debrief, complete, body, content, timers, location,
                   panelRefreshes>>

\* variant: the success handler redirects when debugging as well
ResolveCompleteAlwaysRedirects ==
    /\ PageAlive
    /\ \E i \in 1..Len(complete) :
         /\ complete[i].status = "pending"
         /\ complete' = [complete EXCEPT ![i].status = "resolved"]
    /\ exitExperiment
    /\ log' = IF debug THEN Bump(Bump(log, "completeSuccess"), "finishData") ELSE log
    /\ runnerState' = "Completed"
    /\ UNCHANGED <<variant, debug, mock, nodeIdx, rep, queue, jsPsychData, debrief,
                   partial, location, panelRefreshes>>

\* variant: the final save settles only after every incremental save
ResolveCompleteAwaitingSaves ==
    /\ PageAlive
    /\ \A k \in 1..Len(partial) : partial[k].status # "pending"
    /\ \E i \in 1..Len(complete) :
         /\ complete[i].status = "pending"
         /\ complete' = [complete EXCEPT ![i].status = "resolved"]
    /\ IF debug
       THEN /\ exitExperimentDebugging
            /\ log' = Bump(Bump(log, "completeSuccess"), "finishData")
            /\ timers' = timers \cup {Timer("displayData")}
       ELSE /\ exitExperiment
            /\ log' = log
    /\ runnerState' = "Completed"
    /\ UNCHANGED <<variant, debug, mock, nodeIdx, rep, queue, jsPsychData, debrief,
                   partial, location, panelRefreshes>>

\* saveTrialDataComplete resolves: the success handler of on_finish
ResolveComplete ==
    /\ PageAlive
    /\ \E i \in 1..Len(complete) :
         /\ complete[i].status = "pending"
         /\ complete' = [complete EXCEPT ![i].status = "resolved"]
    /\ IF debug
       THEN /\ exitExperimentDebugging
            /\ log' = Bump(Bump(log, "completeSuccess"), "finishData")
            /\ timers' = timers \cup {Timer("displayData")}
       ELSE /\ exitExperiment
            /\ log' = log
    /\ runnerState' = "Completed"
    /\ UNCHANGED <<variant, debug, mock, nodeIdx, rep, queue, jsPsychData, debrief,
                   partial, location, panelRefreshes>>

\* variant: then() is given no rejection handler
RejectCompleteUnhandled ==
    /\ PageAlive
    /\ \E i \in 1..Len(complete) :
         /\ complete[i].status = "pending"
         /\ complete' = [complete EXCEPT ![i].status = "rejected"]
    /\ UNCHANGED <<variant, debug, mock, runnerState, nodeIdx, rep, queue,
                   jsPsychData, debrief, partial, body, content, timers, location,
                   log, panelRefreshes>>

\* variant: the rejection handler takes the debugging exit when debugging
RejectCompleteDebugAware ==
    /\ PageAlive
    /\ \E i \in 1..Len(complete) :
         /\ complete[i].status = "pending"
         /\ complete' = [complete EXCEPT ![i].status = "rejected"]
    /\ log' = Bump(log, "completeError")
    /\ IF debug THEN exitExperimentDebugging /\ timers' = timers
                ELSE exitExperiment
    /\ runnerState' = "Failed"
    /\ UNCHANGED <<variant, debug, mock, nodeIdx, rep, queue, jsPsychData, debrief,
                   partial, location, panelRefreshes>>

\* variant: the rejection handler shows the error instead of the notice
RejectCompleteSurfaced ==
    /\ PageAlive
    /\ \E i \in 1..Len(complete) :
         /\ complete[i].status = "pending"
         /\ complete' = [complete EXCEPT ![i].status = "rejected"]
    /\ log' = Bump(log, "completeError")
    /\ body' = Page("error", FALSE, FALSE)
    /\ content' = Removed
    /\ timers' = timers
    /\ runnerState' = "Failed"
    /\ UNCHANGED <<variant, debug, mock, nodeIdx, rep, queue, jsPsychData, debrief,
                   partial, location, panelRefreshes>>

\* saveTrialDataComplete rejects: the error handler of on_finish
RejectComplete ==
    /\ PageAlive
    /\ \E i \in 1..Len(complete) :
         /\ complete[i].status = "pending"
         /\ complete' = [complete EXCEPT ![i].status = "rejected"]
    /\ log' = Bump(log, "completeError")
    /\ exitExperiment
    /\ runnerState' = "Failed"
    /\ UNCHANGED <<variant, debug, mock, nodeIdx, rep, queue, jsPsychData, debrief,
                   partial, location, panelRefreshes>>

\* the timer of exitExperiment fires: globalThis.location.replace(prolificCUrl)
FireRedirect ==
    /\ PageAlive
    /\ Timer("redirect") \in timers
    /\ location' = "prolific"
    /\ timers' = {}
    /\ UNCHANGED <<variant, debug, mock, runnerState, nodeIdx, rep, queue,
                   jsPsychData, debrief, partial, complete, body, content, log,
                   panelRefreshes>>

\* the timer of the debug success branch fires: jsPsych.data.displayData()
FireDisplayData ==
    /\ PageAlive
    /\ Timer("displayData") \in timers
    /\ timers' = timers \ {Timer("displayData")}
    /\ content' = DataDisplay
    /\ UNCHANGED <<variant, debug, mock, runnerState, nodeIdx, rep, queue,
                   jsPsychData, debrief, partial, complete, body, location, log,
                   panelRefreshes>>

Next ==
    \/ Start
    \/ RunUnit
    \/ Finish
    \/ \E i \in 1..Len(partial) : ResolvePartial(i)
    \/ \E i \in 1..Len(partial) : RejectPartial(i)
    \/ ResolveComplete
    \/ RejectComplete
    \/ FireRedirect
    \/ FireDisplayData

Spec == Init /\ [][Next]_vars

\* The engine runs every unit to completion and calls on_finish when the
\* timeline is exhausted; the adapter settles the final save.  Nothing is
\* assumed about the incremental saves or about Start.
FairSpec ==
    /\ Spec
    /\ WF_vars(RunUnit)
    /\ WF_vars(Finish)
    /\ WF_vars(ResolveComplete \/ RejectComplete)

(* ------------------------------ claims -------------------------------- *)

Terminal == {"Completed", "Failed"}

\* C1: at most one save-all call is ever dispatched; none while the runner
\* is Idle or Running; from Finishing on there is exactly one, dispatched
\* after the last unit's data event, and it carries the whole data set in
\* emission order, as long as the flattened timeline.
C1_OneSaveAllCarryingAllData ==
    /\ Len(complete) <= 1
    /\ runnerState \in {"Idle", "Running"} => complete = <<>>
    /\ runnerState \in {"Finishing"} \cup Terminal =>
         /\ Len(complete) = 1
         /\ Exhausted
         /\ complete[1].records = jsPsychData.trials
         /\ Len(complete[1].records) = FlatCount(Timeline)
         /\ \A i \in 1..Len(complete[1].records) :
              complete[1].records[i].trial_index = i - 1

\* C1 witness: Scenario A has completed with its three records saved.
C1_Witness ==
    /\ variant = "scenarioA"
    /\ runnerState = "Completed"
    /\ Len(complete) = 1
    /\ Len(complete[1].records) = 3
    /\ Len(partial) = 3

C2_StateMatchesOutcome ==
    /\ runnerState = "Finishing" <=>
         (Len(complete) = 1 /\ complete[1].status = "pending")
    /\ runnerState = "Completed" <=>
         (Len(complete) = 1 /\ complete[1].status = "resolved")
    /\ runnerState = "Failed" <=>
         (Len(complete) = 1 /\ complete[1].status = "rejected")

C2_TerminalStep ==
    runnerState \in Terminal =>
        /\ runnerState' = runnerState
        /\ complete' = complete
        /\ jsPsychData' = jsPsychData
        /\ <<nodeIdx, rep, queue>>' = <<nodeIdx, rep, queue>>

\* C2: once the final save has settled the runner is Completed exactly if
\* the save-all call resolved and Failed exactly if it rejected, and both
\* states are absorbing: no step taken in them changes the runner state,
\* runs a unit or dispatches a save-all call.
C2_TerminalStatesAbsorbing ==
    []C2_StateMatchesOutcome /\ [][C2_TerminalStep]_vars

\* C2 witness: a step was taken after the Failed state was entered.
C2_Witness ==
    /\ runnerState = "Failed"
    /\ location = "prolific"

\* C3: when the save-all call has rejected, with debugging on or off, the
\* runner is Failed, the participant sees the exit notice with the
\* completion code, the redirect is scheduled with the fixed delay (or has
\* already happened), and the failure appears in the log only.
C3_FailedStillExits ==
    (Len(complete) = 1 /\ complete[1].status = "rejected") =>
        /\ runnerState = "Failed"
        /\ Visible.kind = "exitMessage"
        /\ Visible.completionCode
        /\ \/ [action |-> "redirect", delay |-> ExitDelay] \in timers
           \/ location = "prolific"
        /\ log["completeError"] = 1

\* C3 witness: the final save rejected in a debugging session.
C3_Witness ==
    /\ debug
    /\ runnerState = "Failed"
    /\ Timer("redirect") \in timers

\* what the participant can observe of a session
Obs == [visible |-> Visible, timers |-> timers, location |-> location]

\* the observations of a session whose final save resolved, from the
\* handler's return on
CompletedObs(d) ==
    IF d
    THEN {[visible |-> Page("exitMessage", TRUE, TRUE),
           timers |-> {Timer("displayData")}, location |-> "experiment"],
          [visible |-> DataDisplay, timers |-> {}, location |-> "experiment"]}
    ELSE {[visible |-> Page("exitMessage", TRUE, FALSE),
           timers |-> {Timer("redirect")}, location |-> "experiment"],
          [visible |-> Page("exitMessage", TRUE, FALSE),
           timers |-> {}, location |-> "prolific"]}

\* the observations of a session whose final save rejected
FailedObs(d) ==
    {[visible |-> Page("exitMessage", TRUE, d),
      timers |-> {Timer("redirect")}, location |-> "experiment"],
     [visible |-> Page("exitMessage", TRUE, d),
      timers |-> {}, location |-> "prolific"]}

\* C4 as stated: in every configuration, debugging included, a session
\* whose final save rejected shows what the session whose final save
\* resolved shows, and the other way round.
C4_SameUIWhateverTheOutcome ==
    /\ runnerState = "Completed" => Obs \in CompletedObs(debug) \cap FailedObs(debug)
    /\ runnerState = "Failed" => Obs \in CompletedObs(debug) \cap FailedObs(debug)

\* C4 amended: each outcome shows its own observations, and with the debug
\* flag off these are the same for a resolved and a rejected final save,
\* which differ in the log only; with the debug flag on, they have no
\* observation in common.
C4_SameUIWhenNotDebugging ==
    /\ runnerState = "Completed" => Obs \in CompletedObs(debug)
    /\ runnerState = "Failed" => Obs \in FailedObs(debug)
    /\ (runnerState \in Terminal /\ ~debug) =>
         /\ Obs \in CompletedObs(debug) \cap FailedObs(debug)
         /\ log["completeError"] = (IF runnerState = "Failed" THEN 1 ELSE 0)
    /\ (runnerState \in Terminal /\ debug) =>
         Obs \notin CompletedObs(debug) \cap FailedObs(debug)

\* C4 witness: a final save rejected with the debug flag off, and the
\* redirect has taken place.
C4_Witness ==
    /\ ~debug
    /\ runnerState = "Failed"
    /\ location = "prolific"
    /\ log["completeError"] = 1

\* the last data event of the session so far
LastEvent(dc) == dc.trials[Len(dc.trials)]

\* C5: a step in which the engine emits an event whose save-incrementally
\* flag is false or absent leaves the save-one calls as they were.
C5_UnflaggedEventDispatchesNothing ==
    [][(Count(jsPsychData') = Count(jsPsychData) + 1
        /\ LastEvent(jsPsychData').saveIncrementally # "true")
       => partial' = partial]_vars

\* C5 witness: events with the flag false and with the flag absent have
\* been handled, next to a flagged one.
C5_Witness ==
    /\ \E i \in 1..Count(jsPsychData) : jsPsychData.trials[i].saveIncrementally = "false"
    /\ \E i \in 1..Count(jsPsychData) : jsPsychData.trials[i].saveIncrementally = "absent"
    /\ Len(partial) = 1

\* C6: at every point the save-one calls dispatched are, in order, exactly
\* the flagged events emitted so far, one call per event, whether the calls
\* are pending, resolved or rejected.
C6_OneSaveOnePerFlaggedEvent ==
    [i \in 1..Len(partial) |-> partial[i].record] =
        SelectSeq(jsPsychData.trials, LAMBDA r : r.saveIncrementally = "true")

\* C6 witness: a save-one call has rejected, another has resolved and a
\* third flagged event has been emitted since.
C6_Witness ==
    /\ Len(partial) = 3
    /\ partial[1].status = "rejected"
    /\ partial[2].status = "resolved"

\* the names of the units of a timeline
UnitNames(tl) ==
    UNION {IF tl[i].kind = "trial" THEN {tl[i].desc.name}
           ELSE {tl[i].timeline[j].name : j \in 1..Len(tl[i].timeline)} :
           i \in 1..Len(tl)}

\* C7: the events observed never exceed the flattened unit count, the
\* timeline is exhausted exactly when they equal it, every event carries
\* its own index and the name of a unit of the timeline, and from
\* Finishing on the data set has the flattened length: 21 for the main
\* experiment, 6 for the three-trial variant.
C7_EventsEqualFlattenedUnits ==
    /\ Count(jsPsychData) <= FlatCount(Timeline)
    /\ Exhausted <=> Count(jsPsychData) = FlatCount(Timeline)
    /\ \A i \in 1..Count(jsPsychData) :
         /\ jsPsychData.trials[i].trial_index = i - 1
         /\ jsPsychData.trials[i].unit \in UnitNames(Timeline)
    /\ runnerState \in {"Finishing"} \cup Terminal =>
         /\ Count(jsPsychData) = FlatCount(Timeline)
         /\ variant = "main" => Count(jsPsychData) = 21
         /\ variant = "threeTrial" => Count(jsPsychData) = 6
         /\ variant = "mixed" => Count(jsPsychData) = 2 + 2 * MaxReps

\* C7 witness: the main experiment has finished with 21 events.
C7_Witness ==
    /\ variant = "main"
    /\ runnerState = "Finishing"
    /\ Count(jsPsychData) = 21

\* a step that settles a save-one call: same calls, one status changed
PartialSettles ==
    /\ Len(partial') = Len(partial)
    /\ partial' # partial

C8_AdvanceNeverWaits ==
    (runnerState = "Running" /\ ~Exhausted /\ PageAlive) => ENABLED RunUnit

C8_SettleStep ==
    PartialSettles =>
        /\ jsPsychData' = jsPsychData
        /\ runnerState' = runnerState
        /\ <<nodeIdx, rep, queue>>' = <<nodeIdx, rep, queue>>
        /\ <<body, content, timers, location>>' = <<body, content, timers, location>>

\* C8: while the runner is Running and a unit is left, the engine can run
\* that unit whatever the state of the save-one calls, pending ones
\* included; and a step that settles a save-one call, resolving or
\* rejecting it, changes neither the engine's position, nor the collected
\* data set, nor the runner state, nor the page.
C8_SavesNeverBlockPlayback ==
    []C8_AdvanceNeverWaits /\ [][C8_SettleStep]_vars

\* C8 witness: two units have run since a save-one call was dispatched
\* that is still pending, and a later save-one call has rejected.
C8_Witness ==
    /\ runnerState = "Running"
    /\ Len(partial) >= 2
    /\ partial[1].status = "pending"
    /\ partial[2].status = "rejected"
    /\ Count(jsPsychData) >= partial[1].record.trial_index + 3

\* number of events named n among the events lo..hi of the data set
UnitCount(n, lo, hi) ==
    Cardinality({p \in lo..hi : p <= Count(jsPsychData)
                                /\ jsPsychData.trials[p].unit = n})

\* number of members named n of a block
MemberCount(n, members) ==
    Cardinality({j \in 1..Len(members) : members[j].name = n})

\* number of units before node i of a timeline
Offset(tl, i) == SumSeq([k \in 1..(i - 1) |-> NodeCount(tl[k])])

\* the events of a node lie where the declaration puts the node: a trial
\* at its own position, each repetition of a block in its own window,
\* holding no member more often than the block does and, once the window
\* is full, every member exactly as often as the block does
NodeInPlace(tl, i) ==
    LET node == tl[i]
        off  == Offset(tl, i)
    IN  IF node.kind = "trial"
        THEN off + 1 <= Count(jsPsychData) =>
                jsPsychData.trials[off + 1].unit = node.desc.name
        ELSE \A r \in 0..(node.repetitions - 1) :
               LET n  == Len(node.timeline)
                   lo == off + r * n + 1
                   hi == off + (r + 1) * n
               IN  \A name \in UnitNames(tl) :
                     /\ UnitCount(name, lo, hi) <= MemberCount(name, node.timeline)
                     /\ hi <= Count(jsPsychData) =>
                          UnitCount(name, lo, hi) = MemberCount(name, node.timeline)

\* the block of the main experiment, by the names of its units
MainBlockCounts(name) ==
    CASE name = "fixation" -> 6
      [] name \in {"blue_always", "blue_usually"} -> 2
      [] name \in {"yellow_usually", "blue_often", "trial1", "trial2", "trial3",
                   "trial4", "trial5", "trial6"} -> 1
      [] OTHER -> 0

\* C9: whatever order the engine draws, every repetition of a randomized
\* block is a permutation of the block's members and stays inside the
\* block's window of the flattened timeline, and the fixed units keep
\* their declared positions; in the main experiment preload, welcome and
\* instructions run first, in this order, followed by the 18 block units.
C9_RandomizationStaysInsideBlock ==
    /\ \A i \in 1..Len(Timeline) : NodeInPlace(Timeline, i)
    /\ variant = "main" =>
         /\ Count(jsPsychData) >= 1 => jsPsychData.trials[1].unit = "preload"
         /\ Count(jsPsychData) >= 2 => jsPsychData.trials[2].unit = "welcome"
         /\ Count(jsPsychData) >= 3 => jsPsychData.trials[3].unit = "instructions"
         /\ Count(jsPsychData) = 21 =>
              \A name \in UnitNames(Timeline) :
                  UnitCount(name, 4, 21) = MainBlockCounts(name)

\* C9 witness: the main experiment has run all its units and the block did
\* not run in declaration order.
C9_Witness ==
    /\ variant = "main"
    /\ Count(jsPsychData) = 21
    /\ jsPsychData.trials[4].unit # "fixation"
    /\ jsPsychData.trials[6].unit # "trial1"
    /\ jsPsychData.trials[3].unit = "instructions"

\* C10: when the debrief is rendered over a data set without a single
\* response-tagged event, the accuracy it reports is a number.
C10_NoResponsesNoNaN ==
    (debrief.shown /\ debrief.total = 0) => ~debrief.accuracy.nan

(* ---------------------- the summarizer on its own ---------------------- *)

\* events per enumerated data set
MaxEvents == 3

\* response trials of the tallied data sets
MaxResponses == 40

\* the reaction times of Scenario C, in ms
ScenarioRts == {300, 500, 700}

\* the events a data set is enumerated from
EventChoices ==
    {[task |-> k, correct |-> c, rt |-> t] :
        k \in {"response", "fixation"}, c \in {"true", "false"}, t \in ScenarioRts}

DataEvent(choice, index) ==
    [trial_index |-> index, unit |-> "trial", task |-> choice.task,
     saveIncrementally |-> "absent", correct |-> choice.correct, rt |-> choice.rt]

\* every data set of up to MaxEvents events
EnumeratedDataSets ==
    UNION {{[i \in 1..n |-> DataEvent(f[i], i - 1)] : f \in [1..n -> EventChoices]} :
           n \in 0..MaxEvents}

\* t response trials of which the first c are correct
TalliedDataSets ==
    {[i \in 1..t |->
        DataEvent([task |-> "response",
                   correct |-> IF i <= c THEN "true" ELSE "false",
                   rt |-> 500], i - 1)] :
        c \in 0..MaxResponses, t \in 1..MaxResponses}

InitSummarizer ==
    /\ variant = "summary"
    /\ debug = FALSE
    /\ mock = FALSE
    /\ runnerState = "Running"
    /\ nodeIdx = 1
    /\ rep = 0
    /\ queue = <<>>
    /\ jsPsychData \in {DataCollection(d) : d \in EnumeratedDataSets \cup TalliedDataSets}
    /\ debrief = NoDebrief
    /\ partial = <<>>
    /\ complete = <<>>
    /\ body = AppPage
    /\ content = TrialContent
    /\ timers = {}
    /\ location = "experiment"
    /\ log = [k \in LogKinds |-> 0]
    /\ panelRefreshes = 0

\* the debrief trial starts: its stimulus function is evaluated
RenderDebrief ==
    /\ ~debrief.shown
    /\ debrief' = Summarize(jsPsychData)
    /\ UNCHANGED <<variant, debug, mock, runnerState, nodeIdx, rep, queue,
                   jsPsychData, partial, complete, body, content, timers, location,
                   log, panelRefreshes>>

NextSummarizer == RenderDebrief

SpecSummarizer == InitSummarizer /\ [][NextSummarizer]_vars

\* the response-tagged events of the data set, and the correct ones
ResponseIdx == {i \in 1..Count(jsPsychData) : jsPsychData.trials[i].task = "response"}
CorrectIdx  == {i \in ResponseIdx : jsPsychData.trials[i].correct = "true"}

RECURSIVE RtSum(_)
RtSum(S) ==
    IF S = {} THEN 0
    ELSE LET i == CHOOSE x \in S : TRUE
         IN  jsPsychData.trials[i].rt + RtSum(S \ {i})

\* k is a / b rounded to the nearest integer, halves up
IsRounded(k, a, b) == 2 * b * k - b <= 2 * a /\ 2 * a < 2 * b * k + b

\* C11: when the data set holds a correct response-tagged event, the
\* accuracy shown is 100 * (correct response events) / (response events)
\* rounded to the nearest integer, and the reaction time shown is the mean
\* rt of the correct response events rounded to the nearest integer;
\* events with another task tag enter neither.
C11_SummaryIsRoundedRatioAndMean ==
    (debrief.shown /\ CorrectIdx # {}) =>
        /\ ~debrief.accuracy.nan
        /\ IsRounded(debrief.accuracy.val, 100 * Cardinality(CorrectIdx),
                     Cardinality(ResponseIdx))
        /\ ~debrief.rt.nan
        /\ IsRounded(debrief.rt.val, RtSum(CorrectIdx), Cardinality(CorrectIdx))

\* C12: any exit notice on the page, in the body or in the content
\* element, carries the completion code, and echoes the redirect URL
\* exactly when the debug flag is set; in a terminal state the notice is
\* what is shown, until the debug branch replaces it with the data set.
C12_NoticeCarriesCompletionCode ==
    /\ \A pg \in {body, content} :
         pg.kind = "exitMessage" =>
            /\ pg.completionCode
            /\ pg.redirectUrl <=> debug
    /\ runnerState \in Terminal =>
         \/ Visible.kind = "exitMessage"
         \/ (debug /\ runnerState = "Completed" /\ Visible = DataDisplay)

\* C12 witness: a debugging session completed and shows the notice with
\* the completion code and the redirect URL.
C12_Witness ==
    /\ debug
    /\ runnerState = "Completed"
    /\ Visible = Page("exitMessage", TRUE, TRUE)

\* C13: for a malformed timeline no data event is ever emitted and no
\* save call is ever dispatched.
C13_MalformedTimelineNeverRuns ==
    ~WellFormedTimeline(Timeline) =>
        /\ Count(jsPsychData) = 0
        /\ partial = <<>>
        /\ complete = <<>>

SaveAllPending == \E i \in 1..Len(complete) : complete[i].status = "pending"

C14_DispatchStep ==
    complete' # complete /\ Len(complete') > Len(complete) =>
        /\ runnerState = "Running" /\ runnerState' = "Finishing"
        /\ content' = PleaseWait
        /\ body' = AppPage

\* C14: the step that dispatches the save-all call is the Running ->
\* Finishing step and puts the please-wait notice in place of the
\* experiment content; while the save-all call is pending the please-wait
\* notice is what is displayed, never the exit notice.
C14_PleaseWaitWhileSaveAllPending ==
    /\ [](SaveAllPending =>
            /\ runnerState = "Finishing"
            /\ Visible = PleaseWait
            /\ body.kind # "exitMessage" /\ content.kind # "exitMessage")
    /\ [][C14_DispatchStep]_vars

\* C14 witness: the save-all call is pending under the please-wait notice
\* and an incremental save has already settled.
C14_Witness ==
    /\ SaveAllPending
    /\ Visible = PleaseWait
    /\ \E i \in 1..Len(partial) : partial[i].status = "resolved"

SaveAllResolves ==
    \E i \in 1..Len(complete) :
        complete[i].status = "pending" /\ complete'[i].status = "resolved"

C15_ResolveStep ==
    SaveAllResolves =>
        IF debug
        THEN /\ content' = exitMessage
             /\ body' = AppPage
             /\ timers' = timers \cup {[action |-> "displayData", delay |-> ExitDelay]}
             /\ location' = location
        ELSE /\ body' = exitMessage
             /\ timers' = timers \cup {[action |-> "redirect", delay |-> ExitDelay]}
             /\ location' = location

C15_TimerStep ==
    /\ (runnerState = "Completed" /\ location' # location) =>
          /\ ~debug
          /\ [action |-> "redirect", delay |-> ExitDelay] \in timers
          /\ location' = "prolific"
    /\ (content' # content /\ content' = DataDisplay) =>
          /\ debug
          /\ [action |-> "displayData", delay |-> ExitDelay] \in timers
          /\ runnerState = "Completed"

\* C15: the step in which the save-all call resolves shows the exit notice
\* at once (as the whole page when not debugging, in the content element
\* when debugging) and schedules, with the fixed delay, the redirect when
\* not debugging and the display of the data set when debugging; the
\* redirect and the data display happen only from those timers; a
\* completed debugging session never has a redirect scheduled and never
\* leaves the page.
C15_ResolvedBranchesOnDebug ==
    /\ [][C15_ResolveStep /\ C15_TimerStep]_vars
    /\ []((debug /\ runnerState = "Completed") =>
            /\ \A t \in timers : t.action # "redirect"
            /\ location = "experiment")

\* C15 witness: a completed debugging session whose data set is on
\* display, still on the experiment page.
C15_Witness ==
    /\ debug
    /\ runnerState = "Completed"
    /\ content = DataDisplay
    /\ location = "experiment"

ResolvedPartials == {i \in 1..Len(partial) : partial[i].status = "resolved"}

C16_RefreshStep ==
    panelRefreshes' # panelRefreshes =>
        /\ panelRefreshes' = panelRefreshes + 1
        /\ debug /\ mock
        /\ complete' = complete
        /\ jsPsychData' = jsPsychData
        /\ \E i \in 1..Len(partial) :
             /\ partial[i].status = "pending"
             /\ partial' = [partial EXCEPT ![i].status = "resolved"]

\* C16: the number of debug-panel refreshes is the number of resolved
\* save-one calls when the debug and mock flags are both set and zero
\* otherwise, and it changes only in a step that resolves one save-one
\* call (not one that rejects a call, emits an event or settles the
\* final save).
C16_PanelRefreshPerResolvedSaveOne ==
    /\ [](panelRefreshes =
            IF debug /\ mock THEN Cardinality(ResolvedPartials) ELSE 0)
    /\ [][C16_RefreshStep]_vars

\* C16 witness: with both flags set, one save-one call resolved and
\* refreshed the panel once, another was rejected, and the final save
\* resolved.
C16_Witness ==
    /\ debug /\ mock
    /\ panelRefreshes = 1
    /\ \E i \in 1..Len(partial) : partial[i].status = "rejected"
    /\ runnerState = "Completed"

PartialPending == \E i \in 1..Len(partial) : partial[i].status = "pending"

C17_OutcomeFromSaveAll ==
    runnerState \in Terminal =>
        /\ Len(complete) = 1
        /\ runnerState = IF complete[1].status = "resolved" THEN "Completed"
                         ELSE "Failed"
        /\ complete[1].status \in {"resolved", "rejected"}
        /\ IF complete[1].status = "resolved" /\ debug
           THEN /\ body = AppPage
                /\ content \in {exitMessage, DataDisplay}
                /\ location = "experiment"
           ELSE /\ body = exitMessage
                /\ content = Removed

C17_FinishingNeverWaits ==
    /\ (runnerState = "Running" /\ Exhausted /\ PageAlive) => ENABLED Finish
    /\ (runnerState = "Finishing" /\ PageAlive) =>
          (ENABLED ResolveComplete /\ ENABLED RejectComplete)

C17_SettleStep ==
    PartialSettles =>
        /\ complete' = complete
        /\ runnerState' = runnerState
        /\ <<body, content, timers, location>>' = <<body, content, timers, location>>

\* C17: the terminal state and the terminal UI branch are determined by
\* the status of the save-all call (and the debug flag) alone, whatever
\* the statuses of the save-one calls; a step settling a save-one call,
\* before or after the save-all call settles, changes neither the runner
\* state, the UI nor the save-all call; and the final save can be
\* dispatched and can settle whether or not save-one calls are pending.
C17_OutcomeIgnoresIncrementalSaves ==
    /\ [](C17_OutcomeFromSaveAll /\ C17_FinishingNeverWaits)
    /\ [][C17_SettleStep]_vars

\* C17 witness: the session completed while one save-one call was still
\* pending and another had been rejected.
C17_Witness ==
    /\ runnerState = "Completed"
    /\ PartialPending
    /\ \E i \in 1..Len(partial) : partial[i].status = "rejected"

C18_AnyOrder ==
    \A i \in 1..Len(partial) :
        (partial[i].status = "pending" /\ PageAlive) =>
            (ENABLED ResolvePartial(i) /\ ENABLED RejectPartial(i))

C18_DataStep ==
    /\ PartialSettles =>
          (jsPsychData' = jsPsychData /\ complete' = complete)
    /\ jsPsychData' # jsPsychData =>
          /\ runnerState = "Running" /\ runnerState' = "Running"
          /\ Count(jsPsychData') = Count(jsPsychData) + 1
          /\ SubSeq(Values(jsPsychData'), 1, Count(jsPsychData)) = Values(jsPsychData)

\* C18: every pending save-one call can resolve or reject whatever the
\* state of the others; a step settling one changes neither the data
\* set nor the save-all call; the data set changes only by appending one
\* event while Running (so never from Finishing on); and the record list
\* of the save-all call is the data set in emission order.
C18_SettleOrderIsIrrelevant ==
    /\ [](C18_AnyOrder
          /\ (Len(complete) > 0 => complete[1].records = Values(jsPsychData)))
    /\ [][C18_DataStep]_vars

\* C18 witness: two save-one calls were in flight together and the later
\* one settled first; the session has finished and the earlier one is
\* still pending.
C18_Witness ==
    /\ \E i, j \in 1..Len(partial) :
         /\ i < j
         /\ partial[i].status = "pending"
         /\ partial[j].status \in {"resolved", "rejected"}
    /\ runnerState \in Terminal
    /\ complete[1].records = Values(jsPsychData)

StateOrder ==
    {<<"Idle", "Running">>, <<"Running", "Finishing">>,
     <<"Finishing", "Completed">>, <<"Finishing", "Failed">>}

C19_OrderStep ==
    runnerState' # runnerState => <<runnerState, runnerState'>> \in StateOrder

C19_UnsettledStep ==
    (runnerState = "Finishing" /\ complete' = complete) =>
        /\ runnerState' = "Finishing"
        /\ body' = AppPage
        /\ content' = PleaseWait

\* C19: the runner state changes only along Idle -> Running -> Finishing
\* -> Completed or Failed; with every unit completing and the save-all
\* call settling, a Running session reaches Completed or Failed; and
\* while Finishing, any step that does not settle the save-all call
\* leaves the runner Finishing on the please-wait notice.
C19_LifecycleOrderAndTermination ==
    /\ [][C19_OrderStep /\ C19_UnsettledStep]_vars
    /\ (runnerState = "Running") ~> (runnerState \in Terminal)

\* C19 witness: a session that ran units and passed through Finishing has
\* failed, with an incremental save still pending.
C19_Witness ==
    /\ runnerState = "Failed"
    /\ Count(jsPsychData) > 0
    /\ PartialPending

ShippedVariants == {"main", "threeTrial", "debrief"}

\* the descriptors of a timeline, block members included
Descriptors(tl) ==
    UNION {IF tl[i].kind = "trial" THEN {tl[i].desc}
           ELSE {tl[i].timeline[j] : j \in 1..Len(tl[i].timeline)} :
           i \in 1..Len(tl)}

\* C20: no descriptor of the three shipped timelines sets the
\* save-incrementally flag; in every run of one of them no event carries
\* the flag, no save-one call is ever dispatched, and the only
\* persistence call is the one save-all call made when Finishing begins.
C20_ShippedTimelinesSaveOnlyAtEnd ==
    variant \in ShippedVariants =>
        /\ \A d \in Descriptors(Timeline) : d.saveIncrementally = "absent"
        /\ \A i \in 1..Count(jsPsychData) :
             Values(jsPsychData)[i].saveIncrementally = "absent"
        /\ partial = <<>>
        /\ Len(complete) = IF runnerState \in {"Idle", "Running"} THEN 0 ELSE 1

\* C20 witness: the main timeline ran all its units and completed with
\* one save-all call and no save-one call.
C20_Witness ==
    /\ variant = "main"
    /\ runnerState = "Completed"
    /\ Count(jsPsychData) = FlatCount(MainTimeline)
    /\ partial = <<>>
    /\ Len(complete) = 1

RedirectTimer == [action |-> "redirect", delay |-> ExitDelay]

C21_ScheduleStep ==
    (RedirectTimer \in timers' /\ RedirectTimer \notin timers) =>
        /\ runnerState = "Finishing" /\ runnerState' \in Terminal
        /\ Len(complete') = 1 /\ complete'[1].status \in {"resolved", "rejected"}
        /\ body' = exitMessage
        /\ location = "experiment"

C21_TerminalStep ==
    runnerState \in Terminal => timers' \subseteq timers

\* C21: a redirect timer exists only in a terminal state, with the
\* save-all call settled and the exit notice as the page; it is scheduled
\* only in the step that leaves Finishing, which a session takes once;
\* in Idle, Running and Finishing no redirect is scheduled and the page
\* has not been left.
C21_RedirectOnceAfterSettling ==
    /\ [](RedirectTimer \in timers =>
            /\ runnerState \in Terminal
            /\ complete[1].status \in {"resolved", "rejected"}
            /\ body = exitMessage)
    /\ [](runnerState \notin Terminal =>
            (RedirectTimer \notin timers /\ location = "experiment"))
    /\ [][C21_ScheduleStep /\ C21_TerminalStep]_vars

\* C21 witness: a session without debugging completed; the exit notice
\* is the page and the redirect is scheduled but has not fired.
C21_Witness ==
    /\ ~debug
    /\ runnerState = "Completed"
    /\ body = exitMessage
    /\ RedirectTimer \in timers
    /\ location = "experiment"

LateStates == {"Finishing", "Completed", "Failed"}

C22_HandlersRunWhilePageAlive ==
    (runnerState \in LateStates /\ PageAlive) =>
        \A i \in 1..Len(partial) :
            partial[i].status = "pending" =>
                (ENABLED ResolvePartial(i) /\ ENABLED RejectPartial(i))

C22_LateHandlerStep ==
    /\ (runnerState \in LateStates /\ PartialSettles) =>
          \E i \in 1..Len(partial) :
             /\ partial[i].status = "pending"
             /\ \/ /\ partial' = [partial EXCEPT ![i].status = "resolved"]
                   /\ panelRefreshes' =
                        IF debug /\ mock THEN panelRefreshes + 1 ELSE panelRefreshes
                   /\ log' = IF debug THEN Bump(log, "partialSuccess") ELSE log
                \/ /\ partial' = [partial EXCEPT ![i].status = "rejected"]
                   /\ panelRefreshes' = panelRefreshes
                   /\ log' = Bump(log, "partialError")
    /\ ~PageAlive =>
          (partial' = partial /\ panelRefreshes' = panelRefreshes /\ log' = log)

=============================================================================
